---- MODULE Spec2Model ----
(***************************************************************************)
(* ACL_check.py: given a Cisco ASA configuration and a queried IPv4        *)
(* address or network, report the network objects, the object-groups and   *)
(* the access-list lines that touch the address.                           *)
(*                                                                         *)
(* A Python str is modelled as the sequence of its characters, so that the *)
(* substring tests (`name in line.text`) and the regular expressions of    *)
(* the script are computed on the text itself.  An address is the tuple of *)
(* its four octets, a network the pair of its first and last address.      *)
(*                                                                         *)
(* IPv4Obj and CiscoConfParse are the classes of the ciscoconfparse        *)
(* library the script imports: IPv4Obj reads "addr", "addr/len",           *)
(* "addr/mask" and "addr mask" as a network (strict=False) and raises on   *)
(* any other text; `a in b` holds when the network of a lies within the    *)
(* network of b.  The exception it raises is written AddressValueError.    *)
(* --debug (more printing) and -a (parsed, never read) are left out.       *)
(***************************************************************************)
EXTENDS Integers, Sequences, FiniteSets, TLC

\* ------------------------------------------------------------------ text

Digits == {"0", "1", "2", "3", "4", "5", "6", "7", "8", "9"}

DigitVal(c) ==
    CASE c = "0" -> 0 [] c = "1" -> 1 [] c = "2" -> 2 [] c = "3" -> 3
      [] c = "4" -> 4 [] c = "5" -> 5 [] c = "6" -> 6 [] c = "7" -> 7
      [] c = "8" -> 8 [] c = "9" -> 9

\* Python's None, and a value that is there: the empty and the one-element tuple.
None == <<>>

Some(v) == <<v>>

\* Python `s in t` for two str.
IsSubstring(s, t) ==
    \E i \in 0..(Len(t) - Len(s)) : SubSeq(t, i + 1, i + Len(s)) = s

\* Python's s[m-1:n], which stops at the end of s.
Slice(s, m, n) ==
    LET last == IF n > Len(s) THEN Len(s) ELSE n
    IN  [i \in 1..(last - m + 1) |-> s[i + m - 1]]

StartsWith(t, p) ==
    Len(t) >= Len(p) /\ SubSeq(t, 1, Len(p)) = p

NoSpace(s) == \A i \in 1..Len(s) : s[i] # " "

\* The decimal value of a str of digits.
RECURSIVE DecVal(_)
DecVal(s) ==
    IF s = <<>> THEN 0
    ELSE 10 * DecVal(SubSeq(s, 1, Len(s) - 1)) + DigitVal(s[Len(s)])

AllDigits(s) == \A i \in 1..Len(s) : s[i] \in Digits

\* The index of the first ch in s at or after pos, Len(s) + 1 when there is none.
RECURSIVE IndexOf(_, _, _)
IndexOf(s, ch, pos) ==
    IF pos > Len(s) THEN Len(s) + 1
    ELSE IF s[pos] = ch THEN pos
    ELSE IndexOf(s, ch, pos + 1)

\* str.split(ch)
RECURSIVE Split(_, _)
RECURSIVE SplitAt(_, _, _)
Split(s, ch) == SplitAt(s, ch, IndexOf(s, ch, 1))

SplitAt(s, ch, i) ==
    IF i > Len(s) THEN <<s>>
    ELSE <<SubSeq(s, 1, i - 1)>> \o Split(SubSeq(s, i + 1, Len(s)), ch)

\* ------------------------------------------------- IPv4Obj (ciscoconfparse)

\* The octets of the parts of a dotted quad, None when they are not four
\* numbers of one to three digits, each at most 255.
QuadOfParts(parts) ==
    IF /\ Len(parts) = 4
       /\ \A i \in 1..4 : /\ Len(parts[i]) \in 1..3
                          /\ AllDigits(parts[i])
                          /\ DecVal(parts[i]) <= 255
    THEN Some([i \in 1..4 |-> DecVal(parts[i])])
    ELSE None

\* The octets of a dotted quad, None when the text is not one.
ParseQuad(s) == QuadOfParts(Split(s, "."))

Pow2(n) == 2 ^ n

\* How many of the bits of octet i (1..4) a prefix of length len covers.
OctetBits(len, i) ==
    IF len - 8 * (i - 1) < 0 THEN 0
    ELSE IF len - 8 * (i - 1) > 8 THEN 8
    ELSE len - 8 * (i - 1)

\* The netmask of a prefix length, as octets.
MaskOfPrefix(len) == [i \in 1..4 |-> 256 - Pow2(8 - OctetBits(len, i))]

\* The prefix lengths whose netmask is q (one at most).
PrefixesOf(q) == {k \in 0..32 : MaskOfPrefix(k) = q}

\* The prefix length of a mask read as a netmask, else as a hostmask, else None.
PickPrefix(asNetmask, asHostmask) ==
    IF asNetmask # {} THEN Some(CHOOSE k \in asNetmask : TRUE)
    ELSE IF asHostmask # {} THEN Some(CHOOSE k \in asHostmask : TRUE)
    ELSE None

\* ipaddress._prefix_from_ip_string: a netmask, or else a hostmask.
PrefixOfMask(q) ==
    PickPrefix(PrefixesOf(q), PrefixesOf([i \in 1..4 |-> 255 - q[i]]))

\* IPv4Network(addr/len, strict=False): the first and the last address.
Network(q, len) ==
    [i \in 1..4 |-> q[i] - (q[i] % Pow2(8 - OctetBits(len, i)))]

Broadcast(q, len) ==
    [i \in 1..4 |-> q[i] - (q[i] % Pow2(8 - OctetBits(len, i)))
                    + Pow2(8 - OctetBits(len, i)) - 1]

MkIPv4Obj(q, len) ==
    [ip |-> q, network |-> Network(q, len), broadcast |-> Broadcast(q, len),
     prefixlen |-> len]

\* The prefix length a quad written as a mask stands for.
MaskLenOfQuad(q) == IF q = None THEN None ELSE PrefixOfMask(q[1])

\* The prefix length written after the separator: a number up to 32, or a mask.
MaskLen(rest) ==
    IF rest # <<>> /\ Len(rest) <= 2 /\ AllDigits(rest)
    THEN (IF DecVal(rest) <= 32 THEN Some(DecVal(rest)) ELSE None)
    ELSE MaskLenOfQuad(ParseQuad(rest))

\* The object of an address and a prefix length, None when either is None.
WithLen(addr, len) ==
    IF addr = None \/ len = None THEN None ELSE Some(MkIPv4Obj(addr[1], len[1]))

\* The place of the separator of address and mask: the first '/', else the
\* first space, else past the end.
SepIndex(arg) ==
    IF IndexOf(arg, "/", 1) <= Len(arg) THEN IndexOf(arg, "/", 1)
    ELSE IndexOf(arg, " ", 1)

IPv4ObjAt(arg, sep) ==
    IF sep > Len(arg) THEN WithLen(ParseQuad(arg), Some(32))
    ELSE WithLen(ParseQuad(SubSeq(arg, 1, sep - 1)),
                 MaskLen(SubSeq(arg, sep + 1, Len(arg))))

\* IPv4Obj(arg): "a.b.c.d", "a.b.c.d/len", "a.b.c.d/mask" or "a.b.c.d mask".
\* None stands for the exception the constructor raises.
IPv4Obj(arg) == IPv4ObjAt(arg, SepIndex(arg))

\* a <= b for two addresses (the order of as_decimal).
AddrLeq(a, b) ==
    \/ a = b
    \/ \E i \in 1..4 : a[i] < b[i] /\ \A j \in 1..(i - 1) : a[j] = b[j]

\* IPv4Obj.__contains__: `val in self`.
Contains(self, val) ==
    IF self.prefixlen = 0 THEN TRUE
    ELSE IF self.prefixlen > val.prefixlen THEN FALSE
    ELSE /\ AddrLeq(self.network, val.network)
         /\ AddrLeq(val.broadcast, self.broadcast)

\* ------------------------------------------------- the script's patterns

\* 'object network '
Str_object_network ==
    <<"o","b","j","e","c","t"," ","n","e","t","w","o","r","k"," ">>
\* 'object-group network '
Str_object_group ==
    <<"o","b","j","e","c","t","-","g","r","o","u","p"," ","n","e","t","w","o","r","k"," ">>
\* ' host '
Str_host ==
    <<" ","h","o","s","t"," ">>
\* ' subnet '
Str_subnet ==
    <<" ","s","u","b","n","e","t"," ">>
\* ' network-object host '
Str_network_object_host ==
    <<" ","n","e","t","w","o","r","k","-","o","b","j","e","c","t"," ","h","o","s","t"," ">>
\* ' network-object object '
Str_network_object_object ==
    <<" ","n","e","t","w","o","r","k","-","o","b","j","e","c","t"," ","o","b","j","e","c","t"," ">>
\* 'access-list '
Str_access_list ==
    <<"a","c","c","e","s","s","-","l","i","s","t"," ">>
\* 'host '
Str_bare_host ==
    <<"h","o","s","t"," ">>
\* 'Invalid subnet/IP'
Msg_invalid ==
    <<"I","n","v","a","l","i","d"," ","s","u","b","n","e","t","/","I","P">>
\* 'Generating pickle file.'
Msg_generating ==
    <<"G","e","n","e","r","a","t","i","n","g"," ","p","i","c","k","l","e"," ","f","i","l","e",".">>
\* 'Done.'
Msg_done ==
    <<"D","o","n","e",".">>
\* 'Matched network objects'
Msg_objects ==
    <<"M","a","t","c","h","e","d"," ","n","e","t","w","o","r","k"," ","o","b","j","e","c","t","s">>
\* 'Matched object groups'
Msg_groups ==
    <<"M","a","t","c","h","e","d"," ","o","b","j","e","c","t"," ","g","r","o","u","p","s">>
\* 'Matched ACLs'
Msg_acls ==
    <<"M","a","t","c","h","e","d"," ","A","C","L","s">>

\* A pattern '^<prefix>(\S+)$': the captured group, None when there is no match.
ReCapture(text, prefix) ==
    LET rest == SubSeq(text, Len(prefix) + 1, Len(text))
    IN  IF StartsWith(text, prefix) /\ rest # <<>> /\ NoSpace(rest)
        THEN Some(rest) ELSE None

RE_OBJECT_NETWORK(text) == ReCapture(text, Str_object_network)

RE_OBJECT_GROUP(text) == ReCapture(text, Str_object_group)

RE_HOST(text) == ReCapture(text, Str_host)

\* '^ subnet ([\S ]+)$': the group may hold spaces.
RE_SUBNET(text) ==
    LET rest == SubSeq(text, Len(Str_subnet) + 1, Len(text))
    IN  IF StartsWith(text, Str_subnet) /\ rest # <<>> THEN Some(rest) ELSE None

RE_NETWORK_OBJECT_HOST(text) == ReCapture(text, Str_network_object_host)

RE_NETWORK_OBJECT_OBJECT(text) == ReCapture(text, Str_network_object_object)

\* The number of digits of s from pos on.
RECURSIVE DigitRun(_, _)
DigitRun(s, pos) ==
    IF pos < 1 \/ pos > Len(s) THEN 0
    ELSE IF s[pos] \notin Digits THEN 0
    ELSE 1 + DigitRun(s, pos + 1)

\* (?:25[0-5]|2[0-4][0-9]|[01]?[0-9][0-9]?) matches the n digits at pos exactly.
OctetFull(s, pos, n) ==
    /\ n \in 1..3
    /\ n = 3 => \/ s[pos] \in {"0", "1"}
                \/ /\ s[pos] = "2"
                   /\ \/ s[pos + 1] \in {"0", "1", "2", "3", "4"}
                      \/ s[pos + 1] = "5" /\ s[pos + 2] \in {"0", "1", "2", "3", "4", "5"}

\* Of a run of n digits at pos, the number the octet pattern takes when nothing
\* has to follow it (the first alternative that matches, each one greedy).
GreedyLen(s, pos, n) ==
    IF n = 0 THEN 0
    ELSE IF n >= 3 /\ OctetFull(s, pos, 3) THEN 3
    ELSE IF n >= 2 THEN 2
    ELSE 1

\* The index after an octet at pos with nothing to follow; 0: no match.
OctetGreedy(s, pos) ==
    IF pos = 0 \/ GreedyLen(s, pos, DigitRun(s, pos)) = 0 THEN 0
    ELSE pos + GreedyLen(s, pos, DigitRun(s, pos))

\* An octet that ch has to follow takes the whole run of n digits.
ThenAt(s, pos, n, ch) ==
    IF /\ OctetFull(s, pos, n)
       /\ pos + n <= Len(s)
       /\ s[pos + n] = ch
    THEN pos + n + 1 ELSE 0

\* The index after an octet at pos and the ch that follows it; 0: no match.
OctetThen(s, pos, ch) == ThenAt(s, pos, DigitRun(s, pos), ch)

\* (?:octet\.){3} at pos: the index after the third dot, 0 when no match.
Dotted3(s, pos) ==
    OctetThen(s, OctetThen(s, OctetThen(s, pos, "."), "."), ".")

\* An address at pos with nothing to follow: the index after it, 0: no match.
AddrGreedy(s, pos) == OctetGreedy(s, Dotted3(s, pos))

\* An address at pos followed by a space: the index after the space.
AddrThenSpace(s, pos) == OctetThen(s, Dotted3(s, pos), " ")

\* RE_BARE_ACL_HOST.findall(text) from pos on: the addresses after 'host '.
RECURSIVE FindallBareHost(_, _)
RECURSIVE BareHostStep(_, _, _)
FindallBareHost(s, pos) ==
    IF pos > Len(s) THEN <<>>
    ELSE BareHostStep(s, pos,
                      IF Slice(s, pos, pos + Len(Str_bare_host) - 1) = Str_bare_host
                      THEN AddrGreedy(s, pos + Len(Str_bare_host)) ELSE 0)

\* e: the index after a match at pos, 0 when the pattern does not match there.
BareHostStep(s, pos, e) ==
    IF e = 0 THEN FindallBareHost(s, pos + 1)
    ELSE <<SubSeq(s, pos + Len(Str_bare_host), e - 1)>> \o FindallBareHost(s, e)

\* RE_BARE_SUBNET.findall(text) from pos on: the 'address address' pairs, whole.
RECURSIVE FindallBareSubnet(_, _)
RECURSIVE BareSubnetStep(_, _, _)
FindallBareSubnet(s, pos) ==
    IF pos > Len(s) THEN <<>>
    ELSE BareSubnetStep(s, pos, AddrGreedy(s, AddrThenSpace(s, pos)))

BareSubnetStep(s, pos, e) ==
    IF e = 0 THEN FindallBareSubnet(s, pos + 1)
    ELSE <<SubSeq(s, pos, e - 1)>> \o FindallBareSubnet(s, e)

\* ------------------------------------------------- inputs of a run

\* '10.0.0.5'
Q_host ==
    <<"1","0",".","0",".","0",".","5">>
\* '10.0.0.0/24'
Q_net ==
    <<"1","0",".","0",".","0",".","0","/","2","4">>
\* '10.0.0.6'
Q_other ==
    <<"1","0",".","0",".","0",".","6">>
\* '10.0.0.256'
Q_bad ==
    <<"1","0",".","0",".","0",".","2","5","6">>
\* 'object network WEB2'
L_obj_WEB2 ==
    <<"o","b","j","e","c","t"," ","n","e","t","w","o","r","k"," ","W","E","B","2">>
\* ' host 10.0.0.5'
L_host_5 ==
    <<" ","h","o","s","t"," ","1","0",".","0",".","0",".","5">>
\* 'object network WEB'
L_obj_WEB ==
    <<"o","b","j","e","c","t"," ","n","e","t","w","o","r","k"," ","W","E","B">>
\* ' subnet 10.0.1.0 255.255.255.0'
L_subnet_1_24 ==
    <<" ","s","u","b","n","e","t"," ","1","0",".","0",".","1",".","0"," ","2","5","5",".","2","5","5",".","2","5","5",".","0">>
\* 'object network NET16'
L_obj_NET16 ==
    <<"o","b","j","e","c","t"," ","n","e","t","w","o","r","k"," ","N","E","T","1","6">>
\* ' description core'
L_description ==
    <<" ","d","e","s","c","r","i","p","t","i","o","n"," ","c","o","r","e">>
\* ' subnet 10.0.0.0 255.255.0.0'
L_subnet_0_16 ==
    <<" ","s","u","b","n","e","t"," ","1","0",".","0",".","0",".","0"," ","2","5","5",".","2","5","5",".","0",".","0">>
\* 'object network V6'
L_obj_V6 ==
    <<"o","b","j","e","c","t"," ","n","e","t","w","o","r","k"," ","V","6">>
\* ' host 10.0.0.9'
L_host_9 ==
    <<" ","h","o","s","t"," ","1","0",".","0",".","0",".","9">>
\* ' subnet 2001:db8::/32'
L_subnet_v6 ==
    <<" ","s","u","b","n","e","t"," ","2","0","0","1",":","d","b","8",":",":","/","3","2">>
\* 'object-group network G1'
L_grp_G1 ==
    <<"o","b","j","e","c","t","-","g","r","o","u","p"," ","n","e","t","w","o","r","k"," ","G","1">>
\* ' network-object object NET16'
L_no_obj_NET16 ==
    <<" ","n","e","t","w","o","r","k","-","o","b","j","e","c","t"," ","o","b","j","e","c","t"," ","N","E","T","1","6">>
\* ' network-object object WEB2'
L_no_obj_WEB2 ==
    <<" ","n","e","t","w","o","r","k","-","o","b","j","e","c","t"," ","o","b","j","e","c","t"," ","W","E","B","2">>
\* ' network-object 10.0.0.0 255.255.255.0'
L_no_bare ==
    <<" ","n","e","t","w","o","r","k","-","o","b","j","e","c","t"," ","1","0",".","0",".","0",".","0"," ","2","5","5",".","2","5","5",".","2","5","5",".","0">>
\* ' network-object host 10.0.0.7'
L_no_host_7 ==
    <<" ","n","e","t","w","o","r","k","-","o","b","j","e","c","t"," ","h","o","s","t"," ","1","0",".","0",".","0",".","7">>
\* 'object-group network G2'
L_grp_G2 ==
    <<"o","b","j","e","c","t","-","g","r","o","u","p"," ","n","e","t","w","o","r","k"," ","G","2">>
\* ' network-object object WEB'
L_no_obj_WEB ==
    <<" ","n","e","t","w","o","r","k","-","o","b","j","e","c","t"," ","o","b","j","e","c","t"," ","W","E","B">>
\* 'object-group network G3'
L_grp_G3 ==
    <<"o","b","j","e","c","t","-","g","r","o","u","p"," ","n","e","t","w","o","r","k"," ","G","3">>
\* ' network-object host 10.0.1.7'
L_no_host_1_7 ==
    <<" ","n","e","t","w","o","r","k","-","o","b","j","e","c","t"," ","h","o","s","t"," ","1","0",".","0",".","1",".","7">>
\* 'object-group network G4'
L_grp_G4 ==
    <<"o","b","j","e","c","t","-","g","r","o","u","p"," ","n","e","t","w","o","r","k"," ","G","4">>
\* ' network-object host fe80::1'
L_no_host_v6 ==
    <<" ","n","e","t","w","o","r","k","-","o","b","j","e","c","t"," ","h","o","s","t"," ","f","e","8","0",":",":","1">>
\* 'access-list A permit ip object WEB2 host 10.0.0.5'
L_acl_obj_host ==
    <<"a","c","c","e","s","s","-","l","i","s","t"," ","A"," ","p","e","r","m","i","t"," ","i","p"," ","o","b","j","e","c","t"," ","W","E","B","2"," ","h","o","s","t"," ","1","0",".","0",".","0",".","5">>
\* 'access-list A permit ip object-group G1 any'
L_acl_group ==
    <<"a","c","c","e","s","s","-","l","i","s","t"," ","A"," ","p","e","r","m","i","t"," ","i","p"," ","o","b","j","e","c","t","-","g","r","o","u","p"," ","G","1"," ","a","n","y">>
\* 'access-list A permit ip 10.0.0.0 255.255.0.0 any'
L_acl_wide ==
    <<"a","c","c","e","s","s","-","l","i","s","t"," ","A"," ","p","e","r","m","i","t"," ","i","p"," ","1","0",".","0",".","0",".","0"," ","2","5","5",".","2","5","5",".","0",".","0"," ","a","n","y">>
\* 'access-list A deny ip 10.0.0.4 10.0.0.6 10.0.0.0 255.255.255.128'
L_acl_pairs ==
    <<"a","c","c","e","s","s","-","l","i","s","t"," ","A"," ","d","e","n","y"," ","i","p"," ","1","0",".","0",".","0",".","4"," ","1","0",".","0",".","0",".","6"," ","1","0",".","0",".","0",".","0"," ","2","5","5",".","2","5","5",".","2","5","5",".","1","2","8">>
\* 'access-list A permit ip object NET16 any'
L_acl_object ==
    <<"a","c","c","e","s","s","-","l","i","s","t"," ","A"," ","p","e","r","m","i","t"," ","i","p"," ","o","b","j","e","c","t"," ","N","E","T","1","6"," ","a","n","y">>
\* The blocks a configuration file is made of: a header line with its
\* indented statements, or one access-list line.
Blocks ==
    << <<L_obj_WEB2, L_host_5>>,
       <<L_obj_WEB, L_subnet_1_24>>,
       <<L_obj_NET16, L_description, L_subnet_0_16>>,
       <<L_obj_V6, L_host_9, L_subnet_v6>>,
       <<L_grp_G1, L_no_obj_NET16, L_no_obj_WEB2, L_no_bare, L_no_host_7>>,
       <<L_grp_G2, L_no_obj_WEB>>,
       <<L_grp_G3, L_no_host_1_7>>,
       <<L_grp_G4, L_no_host_v6>>,
       <<L_acl_obj_host>>,
       <<L_acl_group>>,
       <<L_acl_wide>>,
       <<L_acl_pairs>>,
       <<L_acl_object>> >>

\* The largest number of blocks in a configuration file.
MaxBlocks == 3

\* The lines of the file made of the blocks in S, from block i on.
RECURSIVE FileOf(_, _)
FileOf(S, i) ==
    IF i > Len(Blocks) THEN <<>>
    ELSE (IF i \in S THEN Blocks[i] ELSE <<>>) \o FileOf(S, i + 1)

Files ==
    {FileOf(S, 1) : S \in {T \in SUBSET (1..Len(Blocks)) : Cardinality(T) <= MaxBlocks}}

\* The command lines: -i, -s, -d (None: not given), -o, and -f or -p.
ArgSpace ==
    {a \in [ip : {None, Q_host, Q_net, Q_bad},
            source : {None, Q_other, Q_bad},
            dest : {None, Q_net, Q_bad},
            out_file : BOOLEAN, in_file : BOOLEAN, pickle_file : BOOLEAN] :
        ~(a.in_file /\ a.pickle_file)}

\* ------------------------------------------------- CiscoConfParse

\* The number of spaces a line starts with.
RECURSIVE Indent(_)
Indent(text) ==
    IF text = <<>> \/ text[1] # " " THEN 0 ELSE 1 + Indent(Tail(text))

\* The line that line j of the file is nested in, 0 for a top-level line.
RECURSIVE ParentOf(_, _, _)
ParentOf(file, j, i) ==
    IF i = 0 THEN 0
    ELSE IF Indent(file[i]) < Indent(file[j]) THEN i
    ELSE ParentOf(file, j, i - 1)

\* range(lo, hi + 1)
Range(lo, hi) == [k \in 1..(hi - lo + 1) |-> lo + k - 1]

\* IOSCfgLine(text): a line with no children yet.
IOSCfgLine(text) == [text |-> text, children |-> <<>>]

\* CiscoConfParse(file): the line objects, each with its children in order. A
\* line object is known by its place in the heap of line objects.
CiscoConfParse(file) ==
    [i \in 1..Len(file) |->
        [text |-> file[i],
         children |-> SelectSeq(Range(i + 1, Len(file)),
                                LAMBDA j : ParentOf(file, j, j - 1) = i)]]

\* config.find_objects(RE_OBJECT_NETWORK): the lines that match, in file order.
FindNetworkObjects(heap, conf) ==
    SelectSeq(conf, LAMBDA id : RE_OBJECT_NETWORK(heap[id].text) # None)

\* config.find_objects(RE_OBJECT_GROUP)
FindObjectGroups(heap, conf) ==
    SelectSeq(conf, LAMBDA id : RE_OBJECT_GROUP(heap[id].text) # None)

\* config.find_objects("^access-list ")
FindAccessLists(heap, conf) ==
    SelectSeq(conf, LAMBDA id : StartsWith(heap[id].text, Str_access_list))

\* IOSCfgLine.add_child: the child is appended unless it is there already.
add_child(heap, parent, child) ==
    IF \E k \in 1..Len(heap[parent].children) : heap[parent].children[k] = child
    THEN heap
    ELSE [heap EXCEPT ![parent].children = Append(@, child)]


\* ------------------------------------------------- functions and stuff

\* A name that has not been assigned yet (reading it raises NameError).
Unbound == <<>>

\* is_substring_of_obj_list without the test of line 137: any matched object
\* makes it True.
is_substring_of_obj_list_no_test(heap, obj_name, matched) ==
    \E k \in 1..Len(matched) : TRUE

\* is_substring_of_obj_list(obj_name, matched_objects)
is_substring_of_obj_list(heap, obj_name, matched) ==
    \E k \in 1..Len(matched) : IsSubstring(obj_name, heap[matched[k]].text)

\* Lines 152-155: the address text of a child statement, None when it has none.
ChildAddress(text) ==
    IF RE_HOST(text) # None THEN RE_HOST(text) ELSE RE_SUBNET(text)

\* Lines 160-166 without the test of line 164 (`subnet in addr`).
ObjectAddrVerdict_oneway(query, addr) ==
    IF addr = None THEN "raise"
    ELSE IF Contains(query, addr[1]) THEN "yes"
    ELSE "no"

\* Lines 160-166 for the address made of ip_str: "yes" (append, break), "no",
\* "raise" (IPv4Obj raised).
ObjectAddrVerdict(query, addr) ==
    IF addr = None THEN "raise"
    ELSE IF Contains(query, addr[1]) THEN "yes"
    ELSE IF Contains(addr[1], query) THEN "yes"
    ELSE "no"

\* Lines 152-166 for one child.
ObjectChildVerdict(query, ip_str) ==
    IF ip_str = None THEN "no" ELSE ObjectAddrVerdict(query, IPv4Obj(ip_str[1]))

\* The verdict of a child unless it is "no", else that of the children after it.
FirstVerdict(v, later) == IF v = "no" THEN later ELSE v

\* The inner loop of match_network_objects over the children from k on:
\* "yes" (appended, break), "no" (no child matched), "raise".
RECURSIVE ScanObjectChildren(_, _, _, _)
ScanObjectChildren(heap, query, children, k) ==
    IF k > Len(children) THEN "no"
    ELSE FirstVerdict(ObjectChildVerdict(query, ChildAddress(heap[children[k]].text)),
                      ScanObjectChildren(heap, query, children, k + 1))

\* The outer loop of match_network_objects from object i on; v is the verdict
\* of the children of object i.
RECURSIVE MatchObjectsFrom(_, _, _, _, _)
RECURSIVE MatchObjectsStep(_, _, _, _, _, _)
MatchObjectsFrom(heap, query, network_objects, i, matched) ==
    IF i > Len(network_objects) THEN [raised |-> FALSE, value |-> matched]
    ELSE MatchObjectsStep(heap, query, network_objects, i, matched,
             ScanObjectChildren(heap, query, heap[network_objects[i]].children, 1))

MatchObjectsStep(heap, query, network_objects, i, matched, v) ==
    IF v = "raise" THEN [raised |-> TRUE, value |-> matched]
    ELSE MatchObjectsFrom(heap, query, network_objects, i + 1,
                          IF v = "yes" THEN Append(matched, network_objects[i])
                          ELSE matched)

\* match_network_objects(subnet, network_objects): the list returned, or raised.
match_network_objects(heap, query, network_objects) ==
    MatchObjectsFrom(heap, query, network_objects, 1, <<>>)

\* Lines 190-192 for the address of an inline host: "keep", "drop", "raise".
GroupAddrVerdict(query, addr) ==
    IF addr = None THEN "raise"
    ELSE IF Contains(query, addr[1]) THEN "keep"
    ELSE "drop"

\* Lines 180-192 for one child: a reference, else an inline host, else neither.
GroupChildVerdict(heap, query, matched_objs, network_object, ip_str) ==
    IF network_object # None
    THEN (IF is_substring_of_obj_list(heap, network_object[1], matched_objs)
          THEN "keep" ELSE "drop")
    ELSE IF ip_str # None THEN GroupAddrVerdict(query, IPv4Obj(ip_str[1]))
    ELSE "drop"

\* The inner loop of match_network_object_groups over the children from k on:
\* the children kept, or raised. v is the verdict of child k.
RECURSIVE ScanGroupChildren(_, _, _, _, _, _)
RECURSIVE ScanGroupStep(_, _, _, _, _, _, _)
ScanGroupChildren(heap, query, matched_objs, children, k, kept) ==
    IF k > Len(children) THEN [raised |-> FALSE, value |-> kept]
    ELSE ScanGroupStep(heap, query, matched_objs, children, k, kept,
             GroupChildVerdict(heap, query, matched_objs,
                 RE_NETWORK_OBJECT_OBJECT(heap[children[k]].text),
                 RE_NETWORK_OBJECT_HOST(heap[children[k]].text)))

ScanGroupStep(heap, query, matched_objs, children, k, kept, v) ==
    IF v = "raise" THEN [raised |-> TRUE, value |-> kept]
    ELSE ScanGroupChildren(heap, query, matched_objs, children, k + 1,
                           IF v = "keep" THEN Append(kept, children[k]) ELSE kept)

\* parent.add_child(child) for each child of children, from k on.
RECURSIVE AddChildren(_, _, _, _)
AddChildren(heap, parent, children, k) ==
    IF k > Len(children) THEN heap
    ELSE AddChildren(add_child(heap, parent, children[k]), parent, children, k + 1)

\* Lines 199-206 with line 203 looping over group.children: the new header
\* line gets every child of the group.
KeepGroup_all_children(heap, group, children, matched_groups) ==
    IF children = <<>> THEN [heap |-> heap, value |-> matched_groups]
    ELSE [heap |-> AddChildren(Append(heap, IOSCfgLine(heap[group].text)),
                               Len(heap) + 1, heap[group].children, 1),
          value |-> Append(matched_groups, Len(heap) + 1)]

\* Lines 199-206 without the copy: the group itself keeps the children kept
\* and joins matched_groups.
KeepGroup_in_place(heap, group, children, matched_groups) ==
    IF children = <<>> THEN [heap |-> heap, value |-> matched_groups]
    ELSE [heap |-> [heap EXCEPT ![group].children = children],
          value |-> Append(matched_groups, group)]

\* Lines 199-206: a group with children kept gets a new header line with the
\* text of the group and the kept children, and that line joins matched_groups.
KeepGroup(heap, group, children, matched_groups) ==
    IF children = <<>> THEN [heap |-> heap, value |-> matched_groups]
    ELSE [heap |-> AddChildren(Append(heap, IOSCfgLine(heap[group].text)),
                               Len(heap) + 1, children, 1),
          value |-> Append(matched_groups, Len(heap) + 1)]

\* The outer loop of match_network_object_groups from group i on; scan is the
\* outcome of the inner loop for group i, kept that of lines 199-206.
RECURSIVE MatchGroupsFrom(_, _, _, _, _, _)
RECURSIVE MatchGroupsStep(_, _, _, _, _, _, _)
RECURSIVE MatchGroupsNext(_, _, _, _, _)
MatchGroupsFrom(heap, query, object_groups, matched_objs, i, matched_groups) ==
    IF i > Len(object_groups)
    THEN [raised |-> FALSE, heap |-> heap, value |-> matched_groups]
    ELSE MatchGroupsStep(heap, query, object_groups, matched_objs, i, matched_groups,
             ScanGroupChildren(heap, query, matched_objs,
                               heap[object_groups[i]].children, 1, <<>>))

MatchGroupsStep(heap, query, object_groups, matched_objs, i, matched_groups, scan) ==
    IF scan.raised
    THEN [raised |-> TRUE, heap |-> heap, value |-> matched_groups]
    ELSE MatchGroupsNext(query, object_groups, matched_objs, i,
             KeepGroup(heap, object_groups[i], scan.value, matched_groups))

MatchGroupsNext(query, object_groups, matched_objs, i, kept) ==
    MatchGroupsFrom(kept.heap, query, object_groups, matched_objs, i + 1, kept.value)

\* match_network_object_groups(subnet, object_groups, matched_objects): the list
\* returned and the heap with the new header lines, or raised.
match_network_object_groups(heap, query, object_groups, matched_objs) ==
    MatchGroupsFrom(heap, query, object_groups, matched_objs, 1, <<>>)

\* ------------------------------------------------- the script, line by line

VARIABLES
    args,                   \* the parsed command line
    pc,                     \* where the script is
    subnet, source, dest,   \* the queries: None or an IPv4Obj
    config,                 \* None, or the lines of the loaded configuration
    lines,                  \* the heap of line objects
    net_objs, object_groups,
    matched_objects, source_matched_objects, dest_matched_objects,
    matched_groups, source_matched_groups, dest_matched_groups,
    ACL, ACL_matches,
    idx,                    \* the place of the loop over ACL
    out,                    \* the lines printed
    err                     \* the exception that ended the run, "" for none

vars ==
    <<args, pc, subnet, source, dest, config, lines, net_objs, object_groups,
      matched_objects, source_matched_objects, dest_matched_objects,
      matched_groups, source_matched_groups, dest_matched_groups,
      ACL, ACL_matches, idx, out, err>>

queryVars == <<subnet, source, dest>>

objectVars ==
    <<net_objs, matched_objects, source_matched_objects, dest_matched_objects>>

groupVars ==
    <<object_groups, matched_groups, source_matched_groups, dest_matched_groups>>

aclVars == <<ACL, ACL_matches, idx>>

Init ==
    /\ args \in ArgSpace
    /\ pc = "check_args"
    /\ subnet = None /\ source = None /\ dest = None
    /\ config = None
    /\ lines = <<>>
    /\ net_objs = Unbound /\ object_groups = Unbound
    /\ matched_objects = Unbound
    /\ source_matched_objects = Unbound
    /\ dest_matched_objects = Unbound
    /\ matched_groups = Unbound
    /\ source_matched_groups = Unbound
    /\ dest_matched_groups = Unbound
    /\ ACL = Unbound /\ ACL_matches = Unbound
    /\ idx = 0
    /\ out = <<>>
    /\ err = ""

\* Lines 59-78: conflicting arguments end the run in parser.error.
CheckArgs ==
    /\ pc = "check_args"
    /\ pc' = IF \/ args.out_file /\ (args.ip # None \/ args.source # None \/ args.dest # None)
                \/ args.pickle_file /\ args.out_file
                \/ args.ip # None /\ (args.source # None \/ args.dest # None)
                \/ ~(args.ip # None \/ args.source # None \/ args.dest # None \/ args.out_file)
                \/ ~(args.in_file \/ args.pickle_file)
             THEN "usage_error"
             ELSE IF args.out_file /\ args.in_file THEN "gen_pickle"
             ELSE "parse_ip"
    /\ UNCHANGED <<args, queryVars, config, lines, objectVars, groupVars, aclVars,
                   out, err>>

\* Lines 78-84: -o writes the parsed configuration to a pickle file and exits.
GeneratePickle ==
    /\ pc = "gen_pickle"
    /\ \E file \in Files :
          /\ lines' = CiscoConfParse(file)
          /\ config' = Some(Range(1, Len(file)))
    /\ out' = out \o <<Msg_generating, Msg_done>>
    /\ pc' = "exit"
    /\ UNCHANGED <<args, queryVars, objectVars, groupVars, aclVars, err>>

\* Lines 92-99
ParseIp ==
    /\ pc = "parse_ip"
    /\ IF args.ip = None
       THEN /\ pc' = "parse_source"
            /\ UNCHANGED <<subnet, out>>
       ELSE IF IPv4Obj(args.ip) = None
       THEN /\ out' = Append(out, Msg_invalid)
            /\ pc' = "exit"
            /\ UNCHANGED subnet
       ELSE /\ subnet' = IPv4Obj(args.ip)
            /\ pc' = "parse_source"
            /\ UNCHANGED out
    /\ UNCHANGED <<args, source, dest, config, lines, objectVars, groupVars,
                   aclVars, err>>

\* Lines 100-106
ParseSource ==
    /\ pc = "parse_source"
    /\ IF args.source = None
       THEN /\ pc' = "parse_dest"
            /\ UNCHANGED <<source, out>>
       ELSE IF IPv4Obj(args.source) = None
       THEN /\ out' = Append(out, Msg_invalid)
            /\ pc' = "exit"
            /\ UNCHANGED source
       ELSE /\ source' = IPv4Obj(args.source)
            /\ pc' = "parse_dest"
            /\ UNCHANGED out
    /\ UNCHANGED <<args, subnet, dest, config, lines, objectVars, groupVars,
                   aclVars, err>>

\* Lines 107-113 without the sys.exit() of line 113.
ParseDest_no_exit ==
    /\ pc = "parse_dest"
    /\ IF args.dest = None
       THEN /\ pc' = "load"
            /\ UNCHANGED <<dest, out>>
       ELSE IF IPv4Obj(args.dest) = None
       THEN /\ out' = Append(out, Msg_invalid)
            /\ pc' = "load"
            /\ UNCHANGED dest
       ELSE /\ dest' = IPv4Obj(args.dest)
            /\ pc' = "load"
            /\ UNCHANGED out
    /\ UNCHANGED <<args, subnet, source, config, lines, objectVars, groupVars,
                   aclVars, err>>

\* Lines 107-113
ParseDest ==
    /\ pc = "parse_dest"
    /\ IF args.dest = None
       THEN /\ pc' = "load"
            /\ UNCHANGED <<dest, out>>
       ELSE IF IPv4Obj(args.dest) = None
       THEN /\ out' = Append(out, Msg_invalid)
            /\ pc' = "exit"
            /\ UNCHANGED dest
       ELSE /\ dest' = IPv4Obj(args.dest)
            /\ pc' = "load"
            /\ UNCHANGED out
    /\ UNCHANGED <<args, subnet, source, config, lines, objectVars, groupVars,
                   aclVars, err>>

\* Lines 120-127: the configuration comes from the pickle file or the text file.
LoadConfig ==
    /\ pc = "load"
    /\ \E file \in Files :
          /\ lines' = CiscoConfParse(file)
          /\ config' = Some(Range(1, Len(file)))
    /\ pc' = "objects_ip"
    /\ UNCHANGED <<args, queryVars, objectVars, groupVars, aclVars, out, err>>

\* Lines 211-217: find the network objects, match them against -i.
MatchObjectsIp ==
    /\ pc = "objects_ip"
    /\ net_objs' = Some(FindNetworkObjects(lines, config[1]))
    /\ IF subnet = None
       THEN /\ pc' = "objects_source"
            /\ UNCHANGED <<matched_objects, err>>
       ELSE \E r \in {match_network_objects(lines, subnet[1],
                                            FindNetworkObjects(lines, config[1]))} :
               /\ matched_objects' = IF r.raised THEN matched_objects ELSE Some(r.value)
               /\ pc' = IF r.raised THEN "error" ELSE "objects_source"
               /\ err' = IF r.raised THEN "AddressValueError" ELSE err
    /\ UNCHANGED <<args, queryVars, config, lines, source_matched_objects,
                   dest_matched_objects, groupVars, aclVars, out>>

\* Lines 218-219
MatchObjectsSource ==
    /\ pc = "objects_source"
    /\ IF source = None
       THEN /\ pc' = "objects_dest"
            /\ UNCHANGED <<source_matched_objects, err>>
       ELSE \E r \in {match_network_objects(lines, source[1], net_objs[1])} :
               /\ source_matched_objects' =
                     IF r.raised THEN source_matched_objects ELSE Some(r.value)
               /\ pc' = IF r.raised THEN "error" ELSE "objects_dest"
               /\ err' = IF r.raised THEN "AddressValueError" ELSE err
    /\ UNCHANGED <<args, queryVars, config, lines, net_objs, matched_objects,
                   dest_matched_objects, groupVars, aclVars, out>>

\* Lines 220-221
MatchObjectsDest ==
    /\ pc = "objects_dest"
    /\ IF dest = None
       THEN /\ pc' = "groups_ip"
            /\ UNCHANGED <<dest_matched_objects, err>>
       ELSE \E r \in {match_network_objects(lines, dest[1], net_objs[1])} :
               /\ dest_matched_objects' =
                     IF r.raised THEN dest_matched_objects ELSE Some(r.value)
               /\ pc' = IF r.raised THEN "error" ELSE "groups_ip"
               /\ err' = IF r.raised THEN "AddressValueError" ELSE err
    /\ UNCHANGED <<args, queryVars, config, lines, net_objs, matched_objects,
                   source_matched_objects, groupVars, aclVars, out>>

\* A call match_network_object_groups(q, groups, matched) of lines 230-235,
\* where matched is the variable the call names: reading it unbound raises.
GroupsCall(heap, q, groups, matched) ==
    IF matched = Unbound
    THEN [raised |-> TRUE, heap |-> heap, value |-> <<>>]
    ELSE match_network_object_groups(heap, q[1], groups, matched[1])

\* The exception of a call of GroupsCall that raised.
GroupsError(matched) ==
    IF matched = Unbound THEN "NameError" ELSE "AddressValueError"

\* Lines 225-231: find the object groups, match them against -i.
MatchGroupsIp ==
    /\ pc = "groups_ip"
    /\ object_groups' = Some(FindObjectGroups(lines, config[1]))
    /\ IF subnet = None
       THEN /\ pc' = "groups_source"
            /\ UNCHANGED <<matched_groups, lines, err>>
       ELSE \E r \in {GroupsCall(lines, subnet, FindObjectGroups(lines, config[1]),
                                 matched_objects)} :
               /\ matched_groups' = IF r.raised THEN matched_groups ELSE Some(r.value)
               /\ lines' = r.heap
               /\ pc' = IF r.raised THEN "error" ELSE "groups_source"
               /\ err' = IF r.raised THEN GroupsError(matched_objects) ELSE err
    /\ UNCHANGED <<args, queryVars, config, objectVars, source_matched_groups,
                   dest_matched_groups, aclVars, out>>

\* Lines 232-233
MatchGroupsSource ==
    /\ pc = "groups_source"
    /\ IF source = None
       THEN /\ pc' = "groups_dest"
            /\ UNCHANGED <<source_matched_groups, lines, err>>
       ELSE \E r \in {GroupsCall(lines, source, object_groups[1],
                                 source_matched_objects)} :
               /\ source_matched_groups' =
                     IF r.raised THEN source_matched_groups ELSE Some(r.value)
               /\ lines' = r.heap
               /\ pc' = IF r.raised THEN "error" ELSE "groups_dest"
               /\ err' = IF r.raised THEN GroupsError(source_matched_objects) ELSE err
    /\ UNCHANGED <<args, queryVars, config, objectVars, object_groups, matched_groups,
                   dest_matched_groups, aclVars, out>>

\* Lines 234-235: the call names dest_matched_groups as the matched objects.
MatchGroupsDest ==
    /\ pc = "groups_dest"
    /\ IF dest = None
       THEN /\ pc' = "acl"
            /\ UNCHANGED <<dest_matched_groups, lines, err>>
       ELSE \E r \in {GroupsCall(lines, dest, object_groups[1],
                                 dest_matched_groups)} :
               /\ dest_matched_groups' =
                     IF r.raised THEN dest_matched_groups ELSE Some(r.value)
               /\ lines' = r.heap
               /\ pc' = IF r.raised THEN "error" ELSE "acl"
               /\ err' = IF r.raised THEN GroupsError(dest_matched_groups) ELSE err
    /\ UNCHANGED <<args, queryVars, config, objectVars, object_groups, matched_groups,
                   source_matched_groups, aclVars, out>>

\* Lines 238-241
AclStart ==
    /\ pc = "acl"
    /\ ACL' = Some(FindAccessLists(lines, config[1]))
    /\ pc' = IF FindAccessLists(lines, config[1]) = <<>> THEN "report" ELSE "acl_loop"
    /\ ACL_matches' = Some(<<>>)
    /\ idx' = 1
    /\ UNCHANGED <<args, queryVars, config, lines, objectVars, groupVars, out, err>>

\* obj.re_match(regex): the group, '' when the text does not match.
NameOf(m) == IF m = None THEN <<>> ELSE m[1]

\* Lines 244-248: some matched object's name is in the text.
NamesObject(heap, text, matched) ==
    \E k \in 1..Len(matched) :
        IsSubstring(NameOf(RE_OBJECT_NETWORK(heap[matched[k]].text)), text)

\* Lines 250-254 with the pattern of line 245: the header of a group does not
\* match it, re_match gives '', and '' is in every text.
NamesGroup_object_pattern(heap, text, matched) ==
    \E k \in 1..Len(matched) :
        IsSubstring(NameOf(RE_OBJECT_NETWORK(heap[matched[k]].text)), text)

\* Lines 250-254: some matched group's name is in the text.
NamesGroup(heap, text, matched) ==
    \E k \in 1..Len(matched) :
        IsSubstring(NameOf(RE_OBJECT_GROUP(heap[matched[k]].text)), text)

\* Lines 258-260 for one address: "hit" (append, break), "miss", or the
\* exception raised. q is the value of the variable subnet.
BareHostVerdict(q, addr) ==
    IF addr = None THEN "AddressValueError"
    ELSE IF q = None THEN "TypeError"
    ELSE IF Contains(q[1], addr[1]) THEN "hit"
    ELSE "miss"

\* The verdict of an address unless it is "miss", else that of the later ones.
FirstHit(v, later) == IF v = "miss" THEN later ELSE v

\* Lines 257-260, from the k-th address on.
RECURSIVE ScanBareHosts(_, _, _)
ScanBareHosts(IPs, q, k) ==
    IF k > Len(IPs) THEN "miss"
    ELSE FirstHit(BareHostVerdict(q, IPv4Obj(IPs[k])), ScanBareHosts(IPs, q, k + 1))

\* Lines 265-271 with `break` for `pass` in the except clause: a pair that does
\* not parse ends the loop over the pairs.
RECURSIVE ScanBareSubnets_break(_, _, _)
ScanBareSubnets_break(IPs, q, k) ==
    IF k > Len(IPs) THEN "miss"
    ELSE IF IPv4Obj(IPs[k]) = None \/ q = None THEN "miss"
    ELSE IF Contains(q[1], IPv4Obj(IPs[k])[1]) THEN "hit"
    ELSE ScanBareSubnets_break(IPs, q, k + 1)

\* Lines 266-271 for one pair: whatever is raised is passed over.
BareSubnetVerdict(q, addr) ==
    IF addr = None \/ q = None THEN "miss"
    ELSE IF Contains(q[1], addr[1]) THEN "hit"
    ELSE "miss"

\* Lines 265-271, from the k-th pair on.
RECURSIVE ScanBareSubnets(_, _, _)
ScanBareSubnets(IPs, q, k) ==
    IF k > Len(IPs) THEN "miss"
    ELSE FirstHit(BareSubnetVerdict(q, IPv4Obj(IPs[k])), ScanBareSubnets(IPs, q, k + 1))

\* What one pass of the loop of lines 242-271 appends to ACL_matches, and the
\* exception that ends it ("" for none): c1 and c2 say whether a matched object
\* and a matched group are named, hosts and nets are the verdicts of the scans.
AclOutcome(line, m_objects, m_groups, c1, c2, hosts, nets) ==
    IF m_objects = Unbound THEN [raised |-> "NameError", added |-> <<>>]
    ELSE IF m_groups = Unbound
    THEN [raised |-> "NameError", added |-> IF c1 THEN <<line>> ELSE <<>>]
    ELSE IF hosts \notin {"hit", "miss"}
    THEN [raised |-> hosts,
          added |-> (IF c1 THEN <<line>> ELSE <<>>) \o (IF c2 THEN <<line>> ELSE <<>>)]
    ELSE [raised |-> "",
          added |-> (IF c1 THEN <<line>> ELSE <<>>)
                    \o (IF c2 THEN <<line>> ELSE <<>>)
                    \o (IF hosts = "hit" THEN <<line>> ELSE <<>>)
                    \o (IF nets = "hit" THEN <<line>> ELSE <<>>)]

\* The body of the loop of lines 242-271 for one line.
AclBody(heap, line, q, m_objects, m_groups) ==
    AclOutcome(line, m_objects, m_groups,
               m_objects # Unbound /\ NamesObject(heap, heap[line].text, m_objects[1]),
               m_groups # Unbound /\ NamesGroup(heap, heap[line].text, m_groups[1]),
               ScanBareHosts(FindallBareHost(heap[line].text, 1), q, 1),
               ScanBareSubnets(FindallBareSubnet(heap[line].text, 1), q, 1))

\* Lines 242-271, one pass of the loop.
AclLine ==
    /\ pc = "acl_loop"
    /\ \E r \in {AclBody(lines, ACL[1][idx], subnet, matched_objects, matched_groups)} :
          /\ ACL_matches' = Some(ACL_matches[1] \o r.added)
          /\ err' = r.raised
          /\ pc' = IF r.raised # "" THEN "error"
                   ELSE IF idx = Len(ACL[1]) THEN "report"
                   ELSE "acl_loop"
    /\ idx' = idx + 1
    /\ UNCHANGED <<args, queryVars, config, lines, objectVars, groupVars, ACL, out>>

\* print(line.text), then print(child.text) for its children: lines 274-277, 280-283.
RECURSIVE PrintWithChildren(_, _, _)
PrintWithChildren(heap, list, k) ==
    IF k > Len(list) THEN <<>>
    ELSE <<heap[list[k]].text>>
         \o [c \in 1..Len(heap[list[k]].children) |-> heap[heap[list[k]].children[c]].text]
         \o PrintWithChildren(heap, list, k + 1)

\* Lines 273-287; print("\n...") prints an empty line first.
Report ==
    /\ pc = "report"
    /\ IF matched_objects = Unbound
       THEN /\ out' = out \o <<Msg_objects>>
            /\ err' = "NameError"
            /\ pc' = "error"
       ELSE IF matched_groups = Unbound
       THEN /\ out' = out \o <<Msg_objects>>
                      \o PrintWithChildren(lines, matched_objects[1], 1)
                      \o <<<<>>, Msg_groups>>
            /\ err' = "NameError"
            /\ pc' = "error"
       ELSE /\ out' = out \o <<Msg_objects>>
                      \o PrintWithChildren(lines, matched_objects[1], 1)
                      \o <<<<>>, Msg_groups>>
                      \o PrintWithChildren(lines, matched_groups[1], 1)
                      \o <<<<>>, Msg_acls>>
                      \o [k \in 1..Len(ACL_matches[1]) |-> lines[ACL_matches[1][k]].text]
            /\ err' = err
            /\ pc' = "done"
    /\ UNCHANGED <<args, queryVars, config, lines, objectVars, groupVars, aclVars>>

Next ==
    \/ CheckArgs
    \/ GeneratePickle
    \/ ParseIp
    \/ ParseSource
    \/ ParseDest
    \/ LoadConfig
    \/ MatchObjectsIp
    \/ MatchObjectsSource
    \/ MatchObjectsDest
    \/ MatchGroupsIp
    \/ MatchGroupsSource
    \/ MatchGroupsDest
    \/ AclStart
    \/ AclLine
    \/ Report

Spec == Init /\ [][Next]_vars


\* ------------------------------------------------- properties

\* The elements of a sequence.
Elems(seq) == {seq[k] : k \in 1..Len(seq)}

NoDuplicates(seq) ==
    \A i, j \in 1..Len(seq) : i # j => seq[i] # seq[j]

\* The range of a lies within the range of b.
RangeWithin(a, b) ==
    AddrLeq(b.network, a.network) /\ AddrLeq(a.broadcast, b.broadcast)

\* The query and the statement cover one another, one way or the other.
EitherCovers(a, b) == RangeWithin(a, b) \/ RangeWithin(b, a)

\* The network of a 'host <addr>' or 'subnet <net> <mask>' statement, None for
\* any other statement and for an address that does not parse.
StatementNetwork(text) ==
    IF RE_HOST(text) # None THEN IPv4Obj(RE_HOST(text)[1])
    ELSE IF RE_SUBNET(text) # None THEN IPv4Obj(RE_SUBNET(text)[1])
    ELSE None

\* The object has a statement whose range covers q or is covered by it.
HasCoveringStatement(obj, q) ==
    \E k \in 1..Len(lines[obj].children) :
        /\ StatementNetwork(lines[lines[obj].children[k]].text) # None
        /\ EitherCovers(StatementNetwork(lines[lines[obj].children[k]].text)[1], q)

ObjectsAsClaimed(matched, q) ==
    matched = SelectSeq(net_objs[1], LAMBDA obj : HasCoveringStatement(obj, q))

\* C1: in a run with -i, no network object, object-group or access-list line
\* appears more than once in its result sequence.
C1_NoDuplicateResults ==
    args.ip # None =>
        /\ matched_objects # Unbound => NoDuplicates(matched_objects[1])
        /\ matched_groups # Unbound => NoDuplicates(matched_groups[1])
        /\ ACL_matches # Unbound => NoDuplicates(ACL_matches[1])

\* C2: a run given -s or -d never reads a name that was not assigned for that
\* query: it does not end in a NameError.
C2_QueryPipelinesIndependent ==
    (args.source # None \/ args.dest # None) => err # "NameError"

\* C3: whenever match_network_objects has returned, for -i, -s or -d, its result
\* is the network objects, in configuration order, that have a host or subnet
\* statement whose range contains the range of the query or lies within it.
C3_ObjectsExactlyCovering ==
    /\ matched_objects # Unbound => ObjectsAsClaimed(matched_objects[1], subnet[1])
    /\ source_matched_objects # Unbound =>
           ObjectsAsClaimed(source_matched_objects[1], source[1])
    /\ dest_matched_objects # Unbound =>
           ObjectsAsClaimed(dest_matched_objects[1], dest[1])

\* A result of match_network_objects that keeps some objects and leaves out others.
C3_Witness ==
    /\ matched_objects # Unbound
    /\ matched_objects[1] # <<>>
    /\ Len(matched_objects[1]) < Len(net_objs[1])
    /\ source_matched_objects = Unbound

\* The name of a header line: the text after the keywords.
HeaderName(text, keywords) == SubSeq(text, Len(keywords) + 1, Len(text))

\* The four conditions of the claim for an access-list line, with -i.
NamesMatchedObject(text) ==
    \E o \in Elems(matched_objects[1]) :
        IsSubstring(HeaderName(lines[o].text, Str_object_network), text)

NamesMatchedGroup(text) ==
    \E g \in Elems(matched_groups[1]) :
        IsSubstring(HeaderName(lines[g].text, Str_object_group), text)

HasCoveredHost(text) ==
    \E a \in Elems(FindallBareHost(text, 1)) :
        IPv4Obj(a) # None /\ RangeWithin(IPv4Obj(a)[1], subnet[1])

HasCoveredPair(text) ==
    \E a \in Elems(FindallBareSubnet(text, 1)) :
        IPv4Obj(a) # None /\ RangeWithin(IPv4Obj(a)[1], subnet[1])

\* The scan of the access-list lines has ended without an exception.
AclScanDone == pc \in {"report", "done"} /\ matched_objects # Unbound

InMatchedGroups(group, matched) ==
    \E m \in Elems(matched) : lines[m].text = lines[group].text

\* The names the children of a group refer to, when every child is a
\* 'network-object object <name>' reference; the group has children.
OnlyReferences(group) ==
    /\ lines[group].children # <<>>
    /\ \A c \in Elems(lines[group].children) :
          RE_NETWORK_OBJECT_OBJECT(lines[c].text) # None

ReferredNames(group) ==
    {RE_NETWORK_OBJECT_OBJECT(lines[c].text)[1] : c \in Elems(lines[group].children)}

\* The names of the network objects of the configuration that were not matched.
UnmatchedNames ==
    {HeaderName(lines[o].text, Str_object_network) :
        o \in Elems(net_objs[1]) \ Elems(matched_objects[1])}

\* C5 as stated: a group whose children are all references to network objects
\* that were not matched is never among the matched groups.
C5_UnmatchedReferencesNeverMatch ==
    matched_groups # Unbound =>
        \A g \in Elems(object_groups[1]) :
            (OnlyReferences(g) /\ ReferredNames(g) \subseteq UnmatchedNames)
                => ~InMatchedGroups(g, matched_groups[1])

\* C5 amended: a group whose children are all references, none of them to a name
\* that is part of the header text of a matched object, is never among the
\* matched groups.
C5_NoSubstringReferencesNeverMatch ==
    matched_groups # Unbound =>
        \A g \in Elems(object_groups[1]) :
            (/\ OnlyReferences(g)
             /\ \A n \in ReferredNames(g) : \A o \in Elems(matched_objects[1]) :
                   ~IsSubstring(n, lines[o].text))
                => ~InMatchedGroups(g, matched_groups[1])

\* Some object is matched, and a group that refers only to other objects, whose
\* names are in no matched header, has been scanned.
C5_Witness ==
    /\ matched_groups # Unbound
    /\ matched_objects[1] # <<>>
    /\ \E g \in Elems(object_groups[1]) :
          /\ OnlyReferences(g)
          /\ \A n \in ReferredNames(g) : \A o \in Elems(matched_objects[1]) :
                ~IsSubstring(n, lines[o].text)

\* A child of a group is relevant: a reference the name test accepts, or an
\* inline host whose address the query covers.
RelevantChild(child, q, matched) ==
    IF RE_NETWORK_OBJECT_OBJECT(lines[child].text) # None
    THEN \E o \in Elems(matched) :
            IsSubstring(RE_NETWORK_OBJECT_OBJECT(lines[child].text)[1], lines[o].text)
    ELSE /\ RE_NETWORK_OBJECT_HOST(lines[child].text) # None
         /\ IPv4Obj(RE_NETWORK_OBJECT_HOST(lines[child].text)[1]) # None
         /\ RangeWithin(IPv4Obj(RE_NETWORK_OBJECT_HOST(lines[child].text)[1])[1], q)

RelevantChildren(group, q, matched) ==
    SelectSeq(lines[group].children, LAMBDA c : RelevantChild(c, q, matched))

RelevantGroups(q, matched) ==
    SelectSeq(object_groups[1], LAMBDA g : RelevantChildren(g, q, matched) # <<>>)

GroupsAsClaimed(result, q, matched) ==
    /\ Len(result) = Len(RelevantGroups(q, matched))
    /\ \A k \in 1..Len(result) :
          /\ lines[result[k]].text = lines[RelevantGroups(q, matched)[k]].text
          /\ lines[result[k]].children =
                 RelevantChildren(RelevantGroups(q, matched)[k], q, matched)

\* C6: whenever match_network_object_groups has returned, its result is, in
\* configuration order, one header line for each group with a relevant child,
\* with the text of the group and exactly its relevant children, in their order.
C6_GroupsCarryRelevantChildren ==
    /\ matched_groups # Unbound =>
           GroupsAsClaimed(matched_groups[1], subnet[1], matched_objects[1])
    /\ source_matched_groups # Unbound =>
           GroupsAsClaimed(source_matched_groups[1], source[1], source_matched_objects[1])

\* A returned group with two children, fewer than the group has, while another
\* group was left out.
C6_Witness ==
    /\ matched_groups # Unbound
    /\ Len(matched_groups[1]) < Len(object_groups[1])
    /\ \E m \in Elems(matched_groups[1]) : \E g \in Elems(object_groups[1]) :
          /\ lines[m].text = lines[g].text
          /\ Len(lines[m].children) = 2
          /\ Len(lines[g].children) > 2

\* C7: once the queries have parsed, nothing in the configuration ends the run:
\* no address text of the configuration raises out of the scan.
C7_ConfigurationNeverFatal == err # "AddressValueError"

\* A supplied query that does not parse.
BadQuery(a) == a # None /\ IPv4Obj(a) = None

AnyBadQuery == BadQuery(args.ip) \/ BadQuery(args.source) \/ BadQuery(args.dest)

\* C8: the configuration is loaded, and scanning takes place, only after every
\* supplied query has parsed; a run with a query that does not parse loads
\* nothing, scans nothing, and where it stops at the query it has printed the
\* error and nothing else.
C8_BadQueryStopsBeforeScanning ==
    /\ (config # None \/ net_objs # Unbound \/ object_groups # Unbound \/ ACL # Unbound)
          => /\ args.ip # None => subnet # None
             /\ args.source # None => source # None
             /\ args.dest # None => dest # None
    /\ AnyBadQuery =>
          /\ config = None /\ lines = <<>>
          /\ net_objs = Unbound /\ object_groups = Unbound /\ ACL = Unbound
          /\ pc \in {"check_args", "usage_error", "parse_ip", "parse_source",
                     "parse_dest", "exit"}
          /\ pc = "exit" => out = <<Msg_invalid>>

\* A run stopped at -d, after -s had parsed.
C8_Witness ==
    /\ pc = "exit"
    /\ source # None
    /\ BadQuery(args.dest)
    /\ out = <<Msg_invalid>>

\* C9: once the configuration is loaded, no step changes a line of it: each
\* keeps its text and its children.
C9_ConfigurationNeverMutated ==
    [][config # None =>
          /\ config' = config
          /\ Len(lines') >= Len(lines)
          /\ \A id \in Elems(config[1]) : lines'[id] = lines[id]]_vars

\* A new header line carries some of the children of a group; the group still
\* has them all.
C9_Witness ==
    /\ matched_groups # Unbound
    /\ \E m \in Elems(matched_groups[1]) : \E g \in Elems(object_groups[1]) :
          /\ m \notin Elems(config[1])
          /\ lines[m].text = lines[g].text
          /\ lines[m].children # <<>>
          /\ Len(lines[m].children) < Len(lines[g].children)

\* The first address of a pair, taken alone, is covered by the query.
HasPairWithCoveredFirstAddress(text) ==
    \E a \in Elems(FindallBareSubnet(text, 1)) :
        /\ IPv4Obj(SubSeq(a, 1, IndexOf(a, " ", 1) - 1)) # None
        /\ RangeWithin(IPv4Obj(SubSeq(a, 1, IndexOf(a, " ", 1) - 1))[1], subnet[1])

HasUnparsedPair(text) ==
    \E a \in Elems(FindallBareSubnet(text, 1)) : IPv4Obj(a) = None

====
